---------------------------- MODULE Spec2Model ----------------------------
(***************************************************************************)
(* Model of the two PDF template generators of joomux/dnd-templates:       *)
(*   src/lazy_dm_template.py   (7 linked pages)                            *)
(*   src/faction_template.py   (2 pages)                                   *)
(*                                                                         *)
(* Lengths are exact rationals of points.  One point is U model units, so  *)
(* that every division the programs perform (by 226, 2, 3, 4, 7) is exact  *)
(* on the values in play; ExactDiv records that obligation.                *)
(* Names without a prefix follow lazy_dm_template.py; the F_ prefix marks  *)
(* the definition of the same name in faction_template.py.                 *)
(***************************************************************************)
EXTENDS Integers, Sequences, FiniteSets, TLC

U == 226 * 168

Pt(n) == n * U

ExactDiv(a, b) == a \div b

\* int(round(a / b)): rounding to the nearest row count
TruncDiv_nearest(a, b) == (2 * a + b) \div (2 * b)

\* Python int(a / b): truncation towards zero
TruncDiv(a, b) == IF a >= 0 THEN a \div b ELSE -((-a) \div b)

\* min returning the larger of its arguments
Min_larger(a, b) == IF a <= b THEN b ELSE a

Min(a, b) == IF a <= b THEN a ELSE b

\* 1404 * 72 / 226 and 1872 * 72 / 226 points
RM2_WIDTH == 1404 * 72 * ExactDiv(U, 226)
RM2_HEIGHT == 1872 * 72 * ExactDiv(U, 226)

MARGIN == Pt(20)
LINE_HEIGHT == Pt(14)
SMALL_LINE_HEIGHT == Pt(12)

PAGES == <<"Overview", "Scenes", "Locations", "Secrets", "NPCs", "Combat", "Notes">>

Digit == <<"0", "1", "2", "3", "4", "5", "6", "7", "8", "9">>

RECURSIVE ToStr(_)
ToStr(n) == IF n < 10 THEN Digit[n + 1] ELSE ToStr(n \div 10) \o Digit[(n % 10) + 1]

(***************************************************************************)
(* Backend drawing primitives, as records of what was asked of the canvas. *)
(* line: (x1,y1)-(x2,y2); rect: corner (x1,y1), width x2, height y2;       *)
(* text: drawString at (x1,y1); ctext: text centred on x1 at baseline y1;  *)
(* arc: bounding box (x1,y1)-(x2,y2); circle: centre (x1,y1), radius x2.   *)
(* st is the font and fill colour in force where a claim reads them.       *)
(***************************************************************************)
Prim(k, x1, y1, x2, y2, s, st) ==
    [k |-> k, x1 |-> x1, y1 |-> y1, x2 |-> x2, y2 |-> y2, s |-> s, st |-> st]

Line(x1, y1, x2, y2) == Prim("line", x1, y1, x2, y2, "", "")
Rect(x, y, w, h) == Prim("rect", x, y, w, h, "", "")
Text(x, y, s) == Prim("text", x, y, 0, 0, s, "")
CText(x, y, s, st) == Prim("ctext", x, y, 0, 0, s, st)
Arc(x1, y1, x2, y2) == Prim("arc", x1, y1, x2, y2, "", "")
Circle(x, y, r) == Prim("circle", x, y, r, 0, "", "")

\* A primitive written relative to the cursor, placed at cursor y
AtY(p, y) ==
    IF p.k \in {"line", "arc"}
    THEN [p EXCEPT !.y1 = @ + y, !.y2 = @ + y]
    ELSE [p EXCEPT !.y1 = @ + y]

AllAtY(ps, y) == [i \in 1..Len(ps) |-> AtY(ps[i], y)]

RECURSIVE Flat(_)
Flat(ss) == IF ss = <<>> THEN <<>> ELSE Head(ss) \o Flat(Tail(ss))

(***************************************************************************)
(* lazy_dm_template.py: widgets                                            *)
(***************************************************************************)
draw_corner_flourish(x, y, position) ==
    LET size == Pt(8) IN
    CASE position = "tl" ->
           <<Line(x, y, x + size, y), Line(x, y, x, y - size),
             Arc(x, y - size, x + size, y)>>
      [] position = "tr" ->
           <<Line(x, y, x - size, y), Line(x, y, x, y - size),
             Arc(x - size, y - size, x, y)>>
      [] position = "bl" ->
           <<Line(x, y, x + size, y), Line(x, y, x, y + size),
             Arc(x, y, x + size, y + size)>>
      [] position = "br" ->
           <<Line(x, y, x - size, y), Line(x, y, x, y + size),
             Arc(x - size, y, x, y + size)>>
      [] OTHER -> <<>>

\* the highlight test comparing a 1-based position with the 0-based argument
NavStyle_one_based(i, current_page_idx) ==
    IF i + 1 = current_page_idx THEN "Helvetica-Bold/DARK_GRAY" ELSE "Helvetica/MED_GRAY"

NavStyle(i, current_page_idx) ==
    IF i = current_page_idx THEN "Helvetica-Bold/DARK_GRAY" ELSE "Helvetica/MED_GRAY"

\* the link name built from the 0-based index
LinkTarget_zero_based(i) == "page" \o ToStr(i)

LinkTarget(i) == "page" \o ToStr(i + 1)

\* draw_nav_bar with each link rectangle starting at its label's centre
draw_nav_bar_from_centre(page_width, current_page_idx) ==
    LET y == RM2_HEIGHT - MARGIN - Pt(15)
        link_width == ExactDiv(page_width - 2 * MARGIN, Len(PAGES))
        cx(i) == MARGIN + i * link_width + ExactDiv(link_width, 2)
    IN  [prims |-> <<Line(MARGIN, y - Pt(8), page_width - MARGIN, y - Pt(8)),
                     Line(MARGIN, y + Pt(12), page_width - MARGIN, y + Pt(12))>>
                   \o [k \in 1..Len(PAGES) |->
                         CText(cx(k - 1), y, PAGES[k], NavStyle(k - 1, current_page_idx))],
         links |-> [k \in 1..Len(PAGES) |->
                      [target |-> LinkTarget(k - 1),
                       x1 |-> cx(k - 1) + Pt(5),
                       y1 |-> y - Pt(5),
                       x2 |-> cx(k - 1) + link_width - Pt(5),
                       y2 |-> y + Pt(12)]],
         ret |-> y - Pt(20)]

\* i ranges over 0..len(PAGES)-1 as enumerate does
draw_nav_bar(page_width, current_page_idx) ==
    LET y == RM2_HEIGHT - MARGIN - Pt(15)
        link_width == ExactDiv(page_width - 2 * MARGIN, Len(PAGES))
        cx(i) == MARGIN + i * link_width + ExactDiv(link_width, 2)
    IN  [prims |-> <<Line(MARGIN, y - Pt(8), page_width - MARGIN, y - Pt(8)),
                     Line(MARGIN, y + Pt(12), page_width - MARGIN, y + Pt(12))>>
                   \o [k \in 1..Len(PAGES) |->
                         CText(cx(k - 1), y, PAGES[k], NavStyle(k - 1, current_page_idx))],
         links |-> [k \in 1..Len(PAGES) |->
                      [target |-> LinkTarget(k - 1),
                       x1 |-> cx(k - 1) - ExactDiv(link_width, 2) + Pt(5),
                       y1 |-> y - Pt(5),
                       x2 |-> cx(k - 1) + ExactDiv(link_width, 2) - Pt(5),
                       y2 |-> y + Pt(12)]],
         ret |-> y - Pt(20)]

draw_section_header(x, y, width, title) ==
    [prims |-> <<Text(x + Pt(12), y, title), Line(x, y - Pt(5), x + width, y - Pt(5))>>
               \o draw_corner_flourish(x, y + Pt(5), "tl")
               \o draw_corner_flourish(x + width, y + Pt(5), "tr"),
     ret |-> y - Pt(15)]

\* draw_ruled_lines returning the height of its last line
draw_ruled_lines_last_line(x, y, width, num_lines, line_height) ==
    [prims |-> [k \in 1..num_lines |->
                  Line(x, y - (k - 1) * line_height, x + width, y - (k - 1) * line_height)],
     ret |-> y - (num_lines - 1) * line_height]

\* draw_ruled_lines returning the cursor moved up instead of down
draw_ruled_lines_sign(x, y, width, num_lines, line_height) ==
    [prims |-> [k \in 1..num_lines |->
                  Line(x, y - (k - 1) * line_height, x + width, y - (k - 1) * line_height)],
     ret |-> y + num_lines * line_height]

\* i ranges over 0..num_lines-1 as range(num_lines) does; empty when num_lines <= 0
draw_ruled_lines(x, y, width, num_lines, line_height) ==
    [prims |-> [k \in 1..num_lines |->
                  Line(x, y - (k - 1) * line_height, x + width, y - (k - 1) * line_height)],
     ret |-> y - num_lines * line_height]

draw_checkbox(x, y) ==
    LET size == Pt(8) IN <<Rect(x, y - size + Pt(2), size, size)>>

\* the frame with its rectangle rising from y instead of hanging from it
draw_decorative_frame_rising(x, y, width, height) ==
    <<Rect(x, y, width, height)>>
    \o draw_corner_flourish(x, y, "tl")
    \o draw_corner_flourish(x + width, y, "tr")
    \o draw_corner_flourish(x, y - height, "bl")
    \o draw_corner_flourish(x + width, y - height, "br")

draw_decorative_frame(x, y, width, height) ==
    <<Rect(x, y - height, width, height)>>
    \o draw_corner_flourish(x, y, "tl")
    \o draw_corner_flourish(x + width, y, "tr")
    \o draw_corner_flourish(x, y - height, "bl")
    \o draw_corner_flourish(x + width, y - height, "br")

draw_initiative_tracker(x, y, width, height, tracker_num) ==
    LET iy0 == y - Pt(12)
        iy1 == iy0 - Pt(18)
        iy2 == iy1 - Pt(10)
        row(i) ==
            LET inner_y == iy2 - i * Pt(12) IN
            <<Rect(x + Pt(5), inner_y - Pt(10), Pt(18), Pt(12)),
              Line(x + Pt(28), inner_y - Pt(8), x + width - Pt(75), inner_y - Pt(8))>>
            \o [j \in 1..5 |->
                  Rect(x + width - Pt(70) + (j - 1) * Pt(10), inner_y - Pt(10), Pt(8), Pt(10))]
            \o <<Line(x + width - Pt(18), inner_y - Pt(8), x + width - Pt(5), inner_y - Pt(8))>>
    IN  draw_decorative_frame(x, y, width, height)
        \o <<Text(x + Pt(5), iy0, "Encounter " \o ToStr(tracker_num) \o ":"),
             Line(x + Pt(70), iy0 - Pt(3), x + width - Pt(10), iy0 - Pt(3)),
             Text(x + Pt(5), iy1, "Init"),
             Text(x + Pt(30), iy1, "Name"),
             Text(x + width - Pt(70), iy1, "HP"),
             Text(x + width - Pt(30), iy1, "Notes")>>
        \o Flat([i \in 1..12 |-> row(i - 1)])

(***************************************************************************)
(* faction_template.py: widgets                                            *)
(***************************************************************************)
F_draw_corner_flourish(x, y, position) ==
    LET size == Pt(8) IN
    CASE position = "tl" ->
           <<Line(x, y, x + size, y), Line(x, y, x, y - size),
             Arc(x, y - size, x + size, y)>>
      [] position = "tr" ->
           <<Line(x, y, x - size, y), Line(x, y, x, y - size),
             Arc(x - size, y - size, x, y)>>
      [] position = "bl" ->
           <<Line(x, y, x + size, y), Line(x, y, x, y + size),
             Arc(x, y, x + size, y + size)>>
      [] position = "br" ->
           <<Line(x, y, x - size, y), Line(x, y, x, y + size),
             Arc(x - size, y, x, y + size)>>
      [] OTHER -> <<>>

F_draw_decorative_frame(x, y, width, height) ==
    <<Rect(x, y - height, width, height)>>
    \o F_draw_corner_flourish(x, y, "tl")
    \o F_draw_corner_flourish(x + width, y, "tr")
    \o F_draw_corner_flourish(x, y - height, "bl")
    \o F_draw_corner_flourish(x + width, y - height, "br")

\* draw_section_header returning the height of its rule
F_draw_section_header_rule(x, y, width, title) ==
    [prims |-> <<Text(x + Pt(12), y, title), Line(x, y - Pt(5), x + width, y - Pt(5))>>
               \o F_draw_corner_flourish(x, y + Pt(5), "tl")
               \o F_draw_corner_flourish(x + width, y + Pt(5), "tr"),
     ret |-> y - Pt(5)]

F_draw_section_header(x, y, width, title) ==
    [prims |-> <<Text(x + Pt(12), y, title), Line(x, y - Pt(5), x + width, y - Pt(5))>>
               \o F_draw_corner_flourish(x, y + Pt(5), "tl")
               \o F_draw_corner_flourish(x + width, y + Pt(5), "tr"),
     ret |-> y - Pt(15)]

F_draw_ruled_lines(x, y, width, num_lines, line_height) ==
    [prims |-> [k \in 1..num_lines |->
                  Line(x, y - (k - 1) * line_height, x + width, y - (k - 1) * line_height)],
     ret |-> y - num_lines * line_height]

F_draw_field_with_label(x, y, label, line_start, line_end) ==
    <<Text(x, y, label), Line(line_start, y - Pt(3), line_end, y - Pt(3))>>

\* draw_progress_clock with the minor ticks counted from 0: range(minor_ticks)
F_draw_progress_clock_range0(x, y, width) ==
    LET scale_width == width - Pt(20)
        start_x == x + Pt(10)
        labels == <<"Nascent", "Emerging", "Advancing", "Imminent", "Complete">>
        num_labels == Len(labels)
        segment_width == ExactDiv(scale_width, num_labels - 1)
        minor_ticks == 3
        major(i) ==
            LET tick_x == start_x + i * segment_width IN
            <<Line(tick_x, y - Pt(5), tick_x, y + Pt(5)),
              CText(tick_x, y - Pt(16), labels[i + 1], "")>>
        minor(i, j) ==
            LET tick_x == start_x + i * segment_width
                          + j * ExactDiv(segment_width, minor_ticks + 1) IN
            Line(tick_x, y - Pt(3), tick_x, y + Pt(3))
    IN  <<Line(start_x, y, start_x + scale_width, y)>>
        \o Flat([k \in 1..num_labels |-> major(k - 1)])
        \o Flat([k \in 1..(num_labels - 1) |-> [j \in 1..minor_ticks |-> minor(k - 1, j - 1)]])

\* i ranges over 0..num_labels-1 (major ticks) and 0..num_labels-2 (segments)
F_draw_progress_clock(x, y, width) ==
    LET scale_width == width - Pt(20)
        start_x == x + Pt(10)
        labels == <<"Nascent", "Emerging", "Advancing", "Imminent", "Complete">>
        num_labels == Len(labels)
        segment_width == ExactDiv(scale_width, num_labels - 1)
        minor_ticks == 3
        major(i) ==
            LET tick_x == start_x + i * segment_width IN
            <<Line(tick_x, y - Pt(5), tick_x, y + Pt(5)),
              CText(tick_x, y - Pt(16), labels[i + 1], "")>>
        minor(i, j) ==
            LET tick_x == start_x + i * segment_width
                          + j * ExactDiv(segment_width, minor_ticks + 1) IN
            Line(tick_x, y - Pt(3), tick_x, y + Pt(3))
    IN  <<Line(start_x, y, start_x + scale_width, y)>>
        \o Flat([k \in 1..num_labels |-> major(k - 1)])
        \o Flat([k \in 1..(num_labels - 1) |-> [j \in 1..minor_ticks |-> minor(k - 1, j)]])

F_draw_disposition_scale(x, y, width) ==
    LET scale_width == width - Pt(20)
        start_x == x + Pt(10)
        labels == <<"Hostile", "Wary", "Neutral", "Friendly", "Allied">>
        num_labels == Len(labels)
        segment_width == ExactDiv(scale_width, num_labels - 1)
        minor_ticks == 3
        major(i) ==
            LET tick_x == start_x + i * segment_width IN
            <<Line(tick_x, y - Pt(5), tick_x, y + Pt(5)),
              CText(tick_x, y - Pt(16), labels[i + 1], "")>>
        minor(i, j) ==
            LET tick_x == start_x + i * segment_width
                          + j * ExactDiv(segment_width, minor_ticks + 1) IN
            Line(tick_x, y - Pt(3), tick_x, y + Pt(3))
    IN  <<Line(start_x, y, start_x + scale_width, y)>>
        \o Flat([k \in 1..num_labels |-> major(k - 1)])
        \o Flat([k \in 1..(num_labels - 1) |-> [j \in 1..minor_ticks |-> minor(k - 1, j)]])

(***************************************************************************)
(* Statements of a page composer.  Vertical coordinates of a statement are *)
(* offsets from the cursor y at the moment the statement runs.             *)
(***************************************************************************)
S_bookmark(name) == [op |-> "bookmark", name |-> name]
S_nav(idx) == [op |-> "nav", idx |-> idx]
S_sety(v) == [op |-> "sety", v |-> v]
S_sub(d) == [op |-> "sub", d |-> d]
S_header(x, w, title) == [op |-> "header", x |-> x, w |-> w, title |-> title]
S_ruled(x, dy, w, n, assign) ==
    [op |-> "ruled", x |-> x, dy |-> dy, w |-> w, n |-> n, assign |-> assign]
S_frame(x, w, h) == [op |-> "frame", x |-> x, w |-> w, h |-> h]
S_checkbox(x) == [op |-> "checkbox", x |-> x]
S_field(x, label, ls, le) == [op |-> "field", x |-> x, label |-> label, ls |-> ls, le |-> le]
S_clock(x, w) == [op |-> "clock", x |-> x, w |-> w]
S_scale(x, w) == [op |-> "scale", x |-> x, w |-> w]
S_tracker(x, w, h, num) == [op |-> "tracker", x |-> x, w |-> w, h |-> h, num |-> num]
S_draw(ps) == [op |-> "draw", ps |-> ps]
S_mark == [op |-> "mark"]
S_leftend == [op |-> "leftend"]
S_reset == [op |-> "reset"]
S_min == [op |-> "min"]
S_count(extra) == [op |-> "count", extra |-> extra]
S_rows(ps) == [op |-> "rows", ps |-> ps]
S_ruled_n(x, w) == [op |-> "ruled_n", x |-> x, w |-> w]

content_width == RM2_WIDTH - 2 * MARGIN

(***************************************************************************)
(* lazy_dm_template.py: page composers                                     *)
(***************************************************************************)
draw_page1_overview ==
    LET col_width == ExactDiv(content_width - Pt(10), 2)
        right_col_x == MARGIN + col_width + Pt(10)
        col3_width == ExactDiv(content_width - Pt(20), 3)
        pc_slot(i) ==
            <<S_draw(<<Text(MARGIN + Pt(5), 0, "PC " \o ToStr(i + 1) \o ":")>>),
              S_ruled(MARGIN + Pt(35), 0, col_width - Pt(35), 2, TRUE),
              S_sub(Pt(5))>>
    IN  <<S_bookmark("page1"),
          S_nav(0),
          S_sub(Pt(10)),
          S_frame(MARGIN, content_width, Pt(45)),
          S_draw(<<Text(MARGIN + Pt(10), -Pt(12), "Campaign:"),
                   Line(MARGIN + Pt(70), -Pt(16), content_width + MARGIN - Pt(10), -Pt(16)),
                   Text(MARGIN + Pt(10), -Pt(35), "Session #"),
                   Text(MARGIN + Pt(150), -Pt(35), "Date:"),
                   Line(MARGIN + Pt(65), -Pt(39), MARGIN + Pt(130), -Pt(39)),
                   Line(MARGIN + Pt(180), -Pt(39), MARGIN + Pt(280), -Pt(39))>>),
          S_sub(Pt(60)),
          S_mark,
          S_header(MARGIN, col_width, "Review the Characters"),
          S_sub(Pt(5))>>
        \o Flat([k \in 1..4 |-> pc_slot(k - 1)])
        \o <<S_leftend,
             S_reset,
             S_header(right_col_x, col_width, "Session Recap"),
             S_sub(Pt(5)),
             S_ruled(right_col_x + Pt(5), 0, col_width - Pt(10), 9, TRUE),
             S_min,
             S_sub(Pt(10)),
             S_header(MARGIN, content_width, "Strong Start"),
             S_sub(Pt(5)),
             S_frame(MARGIN, content_width, Pt(140)),
             S_ruled(MARGIN + Pt(10), -Pt(15), content_width - Pt(20), 10, TRUE),
             S_sub(Pt(20)),
             S_header(MARGIN, content_width, "Story Beats"),
             S_sub(Pt(5)),
             S_count(0),
             S_rows(<<Line(MARGIN + Pt(5), 0, MARGIN + col3_width - Pt(5), 0),
                      Line(MARGIN + col3_width + Pt(10), 0, MARGIN + 2 * col3_width + Pt(5), 0),
                      Line(MARGIN + 2 * col3_width + Pt(15), 0,
                           MARGIN + content_width - Pt(5), 0)>>)>>

draw_page2_scenes ==
    LET scene(i) ==
            <<S_draw(<<Text(MARGIN + Pt(5), 0, "Scene " \o ToStr(i + 1) \o ":"),
                       Line(MARGIN + Pt(50), -Pt(3), content_width + MARGIN, -Pt(3))>>),
              S_sub(Pt(15)),
              S_ruled(MARGIN + Pt(10), 0, content_width - Pt(10), 4, TRUE),
              S_sub(Pt(8))>>
    IN  <<S_bookmark("page2"),
          S_nav(1),
          S_sub(Pt(10)),
          S_header(MARGIN, content_width, "Potential Scenes"),
          S_sub(Pt(5))>>
        \o Flat([k \in 1..7 |-> scene(k - 1)])

draw_page3_locations ==
    LET location(i) ==
            <<S_draw(<<Text(MARGIN + Pt(5), 0, "Location " \o ToStr(i + 1) \o ":"),
                       Line(MARGIN + Pt(65), -Pt(3), content_width + MARGIN, -Pt(3))>>),
              S_sub(Pt(15)),
              S_draw(<<Text(MARGIN + Pt(10), 0, "Features:")>>),
              S_ruled(MARGIN + Pt(55), 0, content_width - Pt(55), 3, TRUE),
              S_sub(Pt(8))>>
    IN  <<S_bookmark("page3"),
          S_nav(2),
          S_sub(Pt(10)),
          S_header(MARGIN, content_width, "Fantastic Locations"),
          S_sub(Pt(5))>>
        \o Flat([k \in 1..8 |-> location(k - 1)])

draw_page4_secrets ==
    LET col_width == ExactDiv(content_width - Pt(10), 2)
        secret(i) ==
            <<S_checkbox(MARGIN + Pt(5)),
              S_draw(<<Text(MARGIN + Pt(18), -Pt(6), ToStr(i + 1) \o ".")>>),
              S_ruled(MARGIN + Pt(30), -Pt(6), content_width - Pt(30), 2, TRUE),
              S_sub(Pt(5))>>
    IN  <<S_bookmark("page4"),
          S_nav(3),
          S_sub(Pt(10)),
          S_header(MARGIN, content_width, "Secrets and Clues"),
          S_sub(Pt(5))>>
        \o Flat([k \in 1..10 |-> secret(k - 1)])
        \o <<S_sub(Pt(5)),
             S_header(MARGIN, content_width, "Loot & Rewards"),
             S_sub(Pt(5)),
             S_count(1),
             S_rows(<<Line(MARGIN + Pt(5), 0, MARGIN + col_width - Pt(5), 0),
                      Line(MARGIN + col_width + Pt(15), 0,
                           MARGIN + content_width - Pt(5), 0)>>)>>

draw_page5_npcs ==
    LET frame_height == Pt(105)
        right == content_width + MARGIN - Pt(10)
        npc(i) ==
            <<S_frame(MARGIN, content_width, frame_height),
              S_draw(<<Text(MARGIN + Pt(8), -Pt(14), "Name:"),
                       Line(MARGIN + Pt(40), -Pt(17), MARGIN + Pt(200), -Pt(17)),
                       Text(MARGIN + Pt(210), -Pt(14), "Faction:"),
                       Line(MARGIN + Pt(250), -Pt(17), right, -Pt(17)),
                       Text(MARGIN + Pt(8), -Pt(30), "Appearance:"),
                       Line(MARGIN + Pt(60), -Pt(33), right, -Pt(33)),
                       Text(MARGIN + Pt(8), -Pt(46), "Motivation:"),
                       Line(MARGIN + Pt(55), -Pt(49), right, -Pt(49)),
                       Text(MARGIN + Pt(8), -Pt(62), "Voice/Quirk:"),
                       Line(MARGIN + Pt(58), -Pt(65), right, -Pt(65)),
                       Text(MARGIN + Pt(8), -Pt(78), "Notes:"),
                       Line(MARGIN + Pt(40), -Pt(81), right, -Pt(81)),
                       Line(MARGIN + Pt(10), -Pt(93), right, -Pt(93))>>),
              S_sub(frame_height + Pt(12))>>
    IN  <<S_bookmark("page5"),
          S_nav(4),
          S_sub(Pt(10)),
          S_header(MARGIN, content_width, "Important NPCs"),
          S_sub(Pt(5))>>
        \o Flat([k \in 1..4 |-> npc(k - 1)])

draw_page6_combat ==
    LET tracker_width == ExactDiv(content_width - Pt(10), 2)
        tracker_height == Pt(195)
        col_width == ExactDiv(content_width - Pt(10), 2)
        monster_row(i) ==
            <<S_draw(<<Line(MARGIN + Pt(5), 0, MARGIN + col_width - Pt(50), 0),
                       Line(MARGIN + col_width - Pt(45), 0, MARGIN + col_width - Pt(5), 0),
                       Line(MARGIN + col_width + Pt(15), 0,
                            MARGIN + content_width - Pt(45), 0),
                       Line(MARGIN + content_width - Pt(40), 0,
                            MARGIN + content_width - Pt(5), 0)>>),
              S_sub(Pt(12))>>
    IN  <<S_bookmark("page6"),
          S_nav(5),
          S_sub(Pt(10)),
          S_header(MARGIN, content_width, "Initiative Trackers"),
          S_sub(Pt(5)),
          S_tracker(MARGIN, tracker_width, tracker_height, 1),
          S_tracker(MARGIN + tracker_width + Pt(10), tracker_width, tracker_height, 2),
          S_sub(tracker_height + Pt(10)),
          S_tracker(MARGIN, tracker_width, tracker_height, 3),
          S_tracker(MARGIN + tracker_width + Pt(10), tracker_width, tracker_height, 4),
          S_sub(tracker_height + Pt(15)),
          S_header(MARGIN, content_width, "Monsters Reference"),
          S_sub(Pt(5)),
          S_draw(<<Text(MARGIN + Pt(5), 0, "Monster"),
                   Text(MARGIN + col_width - Pt(40), 0, "Page"),
                   Text(MARGIN + col_width + Pt(15), 0, "Monster"),
                   Text(MARGIN + content_width - Pt(35), 0, "Page")>>),
          S_sub(Pt(14))>>
        \o Flat([k \in 1..4 |-> monster_row(k - 1)])

draw_page7_notes ==
    <<S_bookmark("page7"),
      S_nav(6),
      S_sub(Pt(10)),
      S_header(MARGIN, content_width, "Session Notes"),
      S_sub(Pt(5)),
      S_count(0),
      S_ruled_n(MARGIN + Pt(5), content_width - Pt(10))>>

(***************************************************************************)
(* faction_template.py: page composers                                     *)
(***************************************************************************)
F_draw_faction_page ==
    LET header_height == Pt(35)
        box_size == Pt(10)
        box_spacing == Pt(3)
        label_width_max == Pt(55)
        col_width == ExactDiv(content_width - Pt(10), 2)
        box_start_x == MARGIN + label_width_max
        box_start_x_right == MARGIN + col_width + label_width_max - Pt(5)
        boxes(start) ==
            [k \in 1..5 |->
               Rect(start + (k - 1) * (box_size + box_spacing), -Pt(2), box_size, box_size)]
        resource_row(left, right) ==
            S_draw(<<Text(MARGIN + Pt(10), 0, left)>>
                   \o boxes(box_start_x)
                   \o <<Text(MARGIN + col_width + Pt(10), 0, right)>>
                   \o boxes(box_start_x_right))
        frame_height == Pt(65)
    IN  <<S_sety(RM2_HEIGHT - MARGIN),
          S_frame(MARGIN, content_width, header_height),
          S_draw(<<Text(MARGIN + Pt(10), -Pt(15), "FACTION:"),
                   Line(MARGIN + Pt(75), -Pt(19), content_width - Pt(100), -Pt(19)),
                   Text(content_width - Pt(85), -Pt(15), "Alignment:"),
                   Line(content_width - Pt(30), -Pt(19),
                        content_width + MARGIN - Pt(10), -Pt(19))>>),
          S_sub(header_height + Pt(15)),
          S_header(MARGIN, content_width, "Core Identity"),
          S_sub(Pt(5)),
          S_field(MARGIN + Pt(5), "Leader/Key Figure:",
                  MARGIN + Pt(100), content_width + MARGIN - Pt(5)),
          S_sub(Pt(18)),
          S_field(MARGIN + Pt(5), "Primary Location:",
                  MARGIN + Pt(95), content_width + MARGIN - Pt(5)),
          S_sub(Pt(18)),
          S_draw(<<Text(MARGIN + Pt(5), 0, "Goal (What They Want):")>>),
          S_sub(Pt(12)),
          S_ruled(MARGIN + Pt(10), 0, content_width - Pt(15), 4, TRUE),
          S_sub(Pt(8)),
          S_draw(<<Text(MARGIN + Pt(5), 0, "Resources:")>>),
          S_sub(Pt(15)),
          resource_row("Troops:", "Magic:"),
          S_sub(Pt(16)),
          resource_row("Money:", "Influence:"),
          S_sub(Pt(16)),
          S_sub(Pt(5)),
          S_draw(<<Text(MARGIN + Pt(10), 0, "Notes:")>>),
          S_sub(Pt(10)),
          S_ruled(MARGIN + Pt(10), 0, content_width - Pt(15), 3, TRUE),
          S_sub(Pt(10)),
          S_header(MARGIN, content_width, "Current Activity"),
          S_sub(Pt(5)),
          S_frame(MARGIN, content_width, frame_height),
          S_draw(<<Text(MARGIN + Pt(8), -Pt(12), "Current Plan/Front:")>>),
          S_ruled(MARGIN + Pt(10), -Pt(22), content_width - Pt(20), 3, FALSE),
          S_sub(frame_height + Pt(12)),
          S_draw(<<Text(MARGIN + Pt(5), 0, "Progress Clock:")>>),
          S_sub(Pt(22)),
          S_clock(MARGIN, content_width),
          S_sub(Pt(38)),
          S_header(MARGIN, content_width, "Notes"),
          S_sub(Pt(5)),
          S_ruled(MARGIN + Pt(5), 0, content_width - Pt(10), 5, FALSE)>>

F_draw_faction_page_2 ==
    LET col_width == ExactDiv(content_width - Pt(20), 2)
        col_width_half == ExactDiv(content_width - Pt(15), 2)
        connection(i) ==
            <<S_draw(<<Text(MARGIN + Pt(10), 0, "Faction:"),
                       Text(MARGIN + col_width + Pt(10), 0, "Relationship:"),
                       Line(MARGIN + Pt(50), -Pt(3), MARGIN + col_width, -Pt(3)),
                       Line(MARGIN + col_width + Pt(70), -Pt(3),
                            content_width + MARGIN - Pt(5), -Pt(3))>>),
              S_sub(Pt(14))>>
        agent(i) ==
            <<S_draw(<<Text(MARGIN + Pt(10), 0, "Name:"),
                       Text(MARGIN + col_width - Pt(20), 0, "Role:"),
                       Line(MARGIN + Pt(45), -Pt(3), MARGIN + col_width - Pt(30), -Pt(3)),
                       Line(MARGIN + col_width + Pt(5), -Pt(3),
                            content_width + MARGIN - Pt(5), -Pt(3))>>),
              S_sub(Pt(14))>>
        strength_row(i) ==
            <<S_draw(<<Line(MARGIN + Pt(10), 0, MARGIN + col_width_half, 0),
                       Line(MARGIN + col_width_half + Pt(15), 0,
                            content_width + MARGIN - Pt(5), 0)>>),
              S_sub(SMALL_LINE_HEIGHT)>>
    IN  <<S_sety(RM2_HEIGHT - MARGIN),
          S_header(MARGIN, content_width, "Relationships"),
          S_sub(Pt(5)),
          S_draw(<<Text(MARGIN + Pt(5), 0, "Disposition Toward PCs:")>>),
          S_sub(Pt(25)),
          S_scale(MARGIN, content_width),
          S_sub(Pt(35)),
          S_draw(<<Text(MARGIN + Pt(5), 0, "Connections to Other Factions:")>>),
          S_sub(Pt(15))>>
        \o Flat([k \in 1..4 |-> connection(k - 1)])
        \o <<S_sub(Pt(15)),
             S_header(MARGIN, content_width, "Intelligence"),
             S_sub(Pt(5)),
             S_draw(<<Text(MARGIN + Pt(5), 0, "Known Agents/NPCs:")>>),
             S_sub(Pt(15))>>
        \o Flat([k \in 1..5 |-> agent(k - 1)])
        \o <<S_sub(Pt(10)),
             S_draw(<<Text(MARGIN + Pt(5), 0, "Strengths:"),
                      Text(MARGIN + col_width_half + Pt(15), 0, "Weaknesses:")>>),
             S_sub(Pt(12))>>
        \o Flat([k \in 1..5 |-> strength_row(k - 1)])
        \o <<S_sub(Pt(10)),
             S_header(MARGIN, content_width, "Notes"),
             S_sub(Pt(5)),
             S_count(0),
             S_ruled_n(MARGIN + Pt(5), content_width - Pt(10))>>

(***************************************************************************)
(* Document assembly: the statements of the two entry points, after the    *)
(* canvas is constructed.                                                  *)
(***************************************************************************)
T_compose(name) == [op |-> "compose", name |-> name]
T_showPage == [op |-> "showPage", name |-> ""]
T_save == [op |-> "save", name |-> ""]
T_print(n) == [op |-> "print", name |-> "", pages |-> n]

\* create_lazy_dm_template with the page break after page 3 left out
create_lazy_dm_template_missing_break ==
    <<T_compose("draw_page1_overview"), T_showPage,
      T_compose("draw_page2_scenes"), T_showPage,
      T_compose("draw_page3_locations"),
      T_compose("draw_page4_secrets"), T_showPage,
      T_compose("draw_page5_npcs"), T_showPage,
      T_compose("draw_page6_combat"), T_showPage,
      T_compose("draw_page7_notes"),
      T_save,
      T_print(7)>>

\* create_lazy_dm_template with a page break after the last composer as well
create_lazy_dm_template_trailing_break ==
    <<T_compose("draw_page1_overview"), T_showPage,
      T_compose("draw_page2_scenes"), T_showPage,
      T_compose("draw_page3_locations"), T_showPage,
      T_compose("draw_page4_secrets"), T_showPage,
      T_compose("draw_page5_npcs"), T_showPage,
      T_compose("draw_page6_combat"), T_showPage,
      T_compose("draw_page7_notes"), T_showPage,
      T_save,
      T_print(7)>>

create_lazy_dm_template ==
    <<T_compose("draw_page1_overview"), T_showPage,
      T_compose("draw_page2_scenes"), T_showPage,
      T_compose("draw_page3_locations"), T_showPage,
      T_compose("draw_page4_secrets"), T_showPage,
      T_compose("draw_page5_npcs"), T_showPage,
      T_compose("draw_page6_combat"), T_showPage,
      T_compose("draw_page7_notes"),
      T_save,
      T_print(7)>>

\* create_faction_template with the page break between the two pages left out
F_create_faction_template_missing_break ==
    <<T_compose("draw_faction_page"),
      T_compose("draw_faction_page_2"),
      T_save,
      T_print(2)>>

F_create_faction_template ==
    <<T_compose("draw_faction_page"), T_showPage,
      T_compose("draw_faction_page_2"),
      T_save,
      T_print(2)>>

Body(name) ==
    CASE name = "draw_page1_overview" -> draw_page1_overview
      [] name = "draw_page2_scenes" -> draw_page2_scenes
      [] name = "draw_page3_locations" -> draw_page3_locations
      [] name = "draw_page4_secrets" -> draw_page4_secrets
      [] name = "draw_page5_npcs" -> draw_page5_npcs
      [] name = "draw_page6_combat" -> draw_page6_combat
      [] name = "draw_page7_notes" -> draw_page7_notes
      [] name = "draw_faction_page" -> F_draw_faction_page
      [] name = "draw_faction_page_2" -> F_draw_faction_page_2

DefaultFilename(d) ==
    IF d = "lazy" THEN "lazy_dm_session_template.pdf" ELSE "faction_tracking_template.pdf"

\* f"{v:.1f}": v rounded to tenths of a point, as a count of tenths
Round1(v) == (10 * v + U \div 2) \div U

(***************************************************************************)
(* State                                                                   *)
(***************************************************************************)
VARIABLES
    call,       \* a widget called on its own: the function and its arguments
    result,     \* what that call drew and returned
    doc,        \* which script runs: "lazy" or "faction"
    filename,   \* the filename argument of the entry point
    canvas,     \* the canvas object: open, pagesize, saved
    page_prims,      \* primitives drawn on the page being composed
    pages,      \* one entry per emitted page: the number of its primitives
    bookmarks,  \* bookmarkPage calls: name and page number
    links,      \* linkRect calls: page number, target name, rectangle
    printed,    \* the console summary
    events,     \* document-level calls, in order
    loc,        \* composer locals other than the cursor
    top,        \* next statement of the entry point (0: canvas not yet made)
    pc,         \* next statement of the running composer (0: none running)
    yset,       \* the composer has assigned its cursor
    y,          \* the composer's cursor
    raised      \* the backend call whose exception is propagating ("": none)

vars == <<call, result, doc, filename, canvas, page_prims, pages, bookmarks, links, printed, events,
          loc, top, pc, yset, y, raised>>

NoCall == [fn |-> "", x |-> 0, y |-> 0, width |-> 0, n |-> 0, h |-> 0, title |-> ""]
NoResult == [called |-> FALSE, prims |-> <<>>, ret |-> 0]
NoPrint == [created |-> "", size |-> <<0, 0>>, pages |-> 0]

NoLocals == [section_start_y |-> 0, left_col_end_y |-> 0, num_lines |-> 0, i |-> 0]

Program == IF doc = "lazy" THEN create_lazy_dm_template ELSE F_create_faction_template

Running == pc > 0

\* an exception raised by the backend is propagating: neither entry point
\* nor any composer or widget has a try statement
Unwinding == raised # ""
Stmts == Body(Program[top].name)
AtEnd == Running /\ pc = Len(Stmts) + 1
Cur == Stmts[pc]
At(o) == ~Unwinding /\ Running /\ pc <= Len(Stmts) /\ Cur.op = o

\* the entry point with every call wrapped in a handler that drops the exception
AtTop_resuming(o) == ~Running /\ top >= 1 /\ top <= Len(Program) /\ Program[top].op = o

AtTop(o) == ~Unwinding /\ ~Running /\ top >= 1 /\ top <= Len(Program) /\ Program[top].op = o
PageNo == Len(pages) + 1

Event(e, arg) == [e |-> e, arg |-> arg]

Init ==
    /\ call = NoCall
    /\ result = NoResult
    /\ doc \in {"lazy", "faction"}
    /\ filename \in {DefaultFilename(doc), "out.pdf"}
    /\ canvas = [open |-> FALSE, pagesize |-> <<0, 0>>, saved |-> FALSE]
    /\ page_prims = <<>>
    /\ pages = <<>>
    /\ bookmarks = <<>>
    /\ links = <<>>
    /\ printed = NoPrint
    /\ events = <<>>
    /\ loc = NoLocals
    /\ top = 0
    /\ pc = 0
    /\ yset = FALSE
    /\ y = 0
    /\ raised = ""

(***************************************************************************)
(* The widget of the running script                                        *)
(***************************************************************************)
Header(x, y0, w, title) ==
    IF doc = "lazy" THEN draw_section_header(x, y0, w, title)
    ELSE F_draw_section_header(x, y0, w, title)

\* the ruled lines spaced by LINE_HEIGHT where the default is SMALL_LINE_HEIGHT
Ruled_line_height(x, y0, w, n) ==
    IF doc = "lazy" THEN draw_ruled_lines(x, y0, w, n, LINE_HEIGHT)
    ELSE F_draw_ruled_lines(x, y0, w, n, LINE_HEIGHT)

Ruled(x, y0, w, n) ==
    IF doc = "lazy" THEN draw_ruled_lines(x, y0, w, n, SMALL_LINE_HEIGHT)
    ELSE F_draw_ruled_lines(x, y0, w, n, SMALL_LINE_HEIGHT)

Frame(x, y0, w, h) ==
    IF doc = "lazy" THEN draw_decorative_frame(x, y0, w, h)
    ELSE F_draw_decorative_frame(x, y0, w, h)

(***************************************************************************)
(* Entry point steps                                                       *)
(***************************************************************************)
\* c = canvas.Canvas(filename, pagesize=(RM2_WIDTH, RM2_HEIGHT))
Open ==
    /\ call = NoCall
    /\ ~Unwinding
    /\ top = 0
    /\ canvas' = [open |-> TRUE, pagesize |-> <<RM2_WIDTH, RM2_HEIGHT>>, saved |-> FALSE]
    /\ events' = Append(events, Event("open", filename))
    /\ top' = 1
    /\ UNCHANGED <<call, result, doc, filename, page_prims, pages, bookmarks, links, printed, loc, pc, yset, y, raised>>

\* draw_pageN_...(c): a fresh frame of locals
Call ==
    /\ AtTop("compose")
    /\ events' = Append(events, Event("compose", Program[top].name))
    /\ pc' = 1
    /\ loc' = NoLocals
    /\ yset' = FALSE
    /\ y' = 0
    /\ UNCHANGED <<call, result, doc, filename, canvas, page_prims, pages, bookmarks, links, printed, top, raised>>

\* the composer falls off its last statement
Return ==
    /\ ~Unwinding
    /\ AtEnd
    /\ pc' = 0
    /\ top' = top + 1
    /\ loc' = NoLocals
    /\ yset' = FALSE
    /\ y' = 0
    /\ UNCHANGED <<call, result, doc, filename, canvas, page_prims, pages, bookmarks, links, printed, events, raised>>

\* c.showPage(): the page being composed is emitted and a new one begun
ShowPage ==
    /\ AtTop("showPage")
    /\ pages' = Append(pages, Len(page_prims))
    /\ page_prims' = <<>>
    /\ events' = Append(events, Event("showPage", ""))
    /\ top' = top + 1
    /\ UNCHANGED <<call, result, doc, filename, canvas, bookmarks, links, printed, loc, pc, yset, y, raised>>

\* c.save(): a page with pending content is emitted first, then the file is written
Save ==
    /\ AtTop("save")
    /\ pages' = IF page_prims # <<>> THEN Append(pages, Len(page_prims)) ELSE pages
    /\ page_prims' = <<>>
    /\ canvas' = [canvas EXCEPT !.saved = TRUE]
    /\ events' = Append(events, Event("save", filename))
    /\ top' = top + 1
    /\ UNCHANGED <<call, result, doc, filename, bookmarks, links, printed, loc, pc, yset, y, raised>>

\* the four print(...) calls
PrintSummary ==
    /\ AtTop("print")
    /\ printed' = [created |-> filename,
                   size |-> <<Round1(RM2_WIDTH), Round1(RM2_HEIGHT)>>,
                   pages |-> Program[top].pages]
    /\ events' = Append(events, Event("print", ""))
    /\ top' = top + 1
    /\ UNCHANGED <<call, result, doc, filename, canvas, page_prims, pages, bookmarks, links, loc, pc, yset, y, raised>>

(***************************************************************************)
(* Composer steps, one per kind of statement                               *)
(***************************************************************************)
Quiet == UNCHANGED <<call, result, doc, filename, canvas, pages, printed, events, top, raised>>

\* c.bookmarkPage(name)
DoBookmark ==
    /\ At("bookmark")
    /\ bookmarks' = Append(bookmarks, [name |-> Cur.name, page |-> PageNo])
    /\ pc' = pc + 1
    /\ UNCHANGED <<page_prims, links, loc, yset, y>>
    /\ Quiet

\* y = draw_nav_bar(c, page_width, idx)
DoNav ==
    /\ At("nav")
    /\ LET r == draw_nav_bar(RM2_WIDTH, Cur.idx) IN
         /\ page_prims' = page_prims \o r.prims
         /\ links' = links \o [k \in 1..Len(r.links) |->
                                 [page |-> PageNo, target |-> r.links[k].target,
                                  x1 |-> r.links[k].x1, y1 |-> r.links[k].y1,
                                  x2 |-> r.links[k].x2, y2 |-> r.links[k].y2]]
         /\ y' = r.ret
    /\ yset' = TRUE
    /\ pc' = pc + 1
    /\ UNCHANGED <<bookmarks, loc>>
    /\ Quiet

\* y = RM2_HEIGHT - MARGIN
DoSetY ==
    /\ At("sety")
    /\ y' = Cur.v
    /\ yset' = TRUE
    /\ pc' = pc + 1
    /\ UNCHANGED <<page_prims, bookmarks, links, loc>>
    /\ Quiet

\* y -= d
DoSub ==
    /\ At("sub")
    /\ y' = y - Cur.d
    /\ pc' = pc + 1
    /\ UNCHANGED <<page_prims, bookmarks, links, loc, yset>>
    /\ Quiet

\* y = draw_section_header(c, x, y, w, title)
DoHeader ==
    /\ At("header")
    /\ LET r == Header(Cur.x, y, Cur.w, Cur.title) IN
         /\ page_prims' = page_prims \o r.prims
         /\ y' = r.ret
    /\ pc' = pc + 1
    /\ UNCHANGED <<bookmarks, links, loc, yset>>
    /\ Quiet

\* [y =] draw_ruled_lines(c, x, y + dy, w, n)
DoRuled ==
    /\ At("ruled")
    /\ LET r == Ruled(Cur.x, y + Cur.dy, Cur.w, Cur.n) IN
         /\ page_prims' = page_prims \o r.prims
         /\ y' = IF Cur.assign THEN r.ret ELSE y
    /\ pc' = pc + 1
    /\ UNCHANGED <<bookmarks, links, loc, yset>>
    /\ Quiet

\* draw_ruled_lines(c, x, y, w, num_lines), the result dropped
DoRuledN ==
    /\ At("ruled_n")
    /\ page_prims' = page_prims \o Ruled(Cur.x, y, Cur.w, loc.num_lines).prims
    /\ pc' = pc + 1
    /\ UNCHANGED <<bookmarks, links, loc, yset, y>>
    /\ Quiet

\* draw_decorative_frame(c, x, y, w, h)
DoFrame ==
    /\ At("frame")
    /\ page_prims' = page_prims \o Frame(Cur.x, y, Cur.w, Cur.h)
    /\ pc' = pc + 1
    /\ UNCHANGED <<bookmarks, links, loc, yset, y>>
    /\ Quiet

\* draw_checkbox(c, x, y)
DoCheckbox ==
    /\ At("checkbox")
    /\ page_prims' = page_prims \o draw_checkbox(Cur.x, y)
    /\ pc' = pc + 1
    /\ UNCHANGED <<bookmarks, links, loc, yset, y>>
    /\ Quiet

\* draw_field_with_label(c, x, y, label, line_start, line_end)
DoField ==
    /\ At("field")
    /\ page_prims' = page_prims \o F_draw_field_with_label(Cur.x, y, Cur.label, Cur.ls, Cur.le)
    /\ pc' = pc + 1
    /\ UNCHANGED <<bookmarks, links, loc, yset, y>>
    /\ Quiet

\* draw_progress_clock(c, x, y, w)
DoClock ==
    /\ At("clock")
    /\ page_prims' = page_prims \o F_draw_progress_clock(Cur.x, y, Cur.w)
    /\ pc' = pc + 1
    /\ UNCHANGED <<bookmarks, links, loc, yset, y>>
    /\ Quiet

\* draw_disposition_scale(c, x, y, w)
DoScale ==
    /\ At("scale")
    /\ page_prims' = page_prims \o F_draw_disposition_scale(Cur.x, y, Cur.w)
    /\ pc' = pc + 1
    /\ UNCHANGED <<bookmarks, links, loc, yset, y>>
    /\ Quiet

\* draw_initiative_tracker(c, x, y, w, h, num)
DoTracker ==
    /\ At("tracker")
    /\ page_prims' = page_prims \o draw_initiative_tracker(Cur.x, y, Cur.w, Cur.h, Cur.num)
    /\ pc' = pc + 1
    /\ UNCHANGED <<bookmarks, links, loc, yset, y>>
    /\ Quiet

\* drawString / line / rect calls written in the composer itself
DoDraw ==
    /\ At("draw")
    /\ page_prims' = page_prims \o AllAtY(Cur.ps, y)
    /\ pc' = pc + 1
    /\ UNCHANGED <<bookmarks, links, loc, yset, y>>
    /\ Quiet

\* section_start_y = y
DoMark ==
    /\ At("mark")
    /\ loc' = [loc EXCEPT !.section_start_y = y]
    /\ pc' = pc + 1
    /\ UNCHANGED <<page_prims, bookmarks, links, yset, y>>
    /\ Quiet

\* left_col_end_y = y
DoLeftEnd ==
    /\ At("leftend")
    /\ loc' = [loc EXCEPT !.left_col_end_y = y]
    /\ pc' = pc + 1
    /\ UNCHANGED <<page_prims, bookmarks, links, yset, y>>
    /\ Quiet

\* y = section_start_y
DoReset ==
    /\ At("reset")
    /\ y' = loc.section_start_y
    /\ pc' = pc + 1
    /\ UNCHANGED <<page_prims, bookmarks, links, loc, yset>>
    /\ Quiet

\* y = min(left_col_end_y, y)
DoMin ==
    /\ At("min")
    /\ y' = Min(loc.left_col_end_y, y)
    /\ pc' = pc + 1
    /\ UNCHANGED <<page_prims, bookmarks, links, loc, yset>>
    /\ Quiet

\* num_lines = int((y - MARGIN - 10) / SMALL_LINE_HEIGHT) [+ 1]
DoCount ==
    /\ At("count")
    /\ loc' = [loc EXCEPT
                 !.num_lines = TruncDiv(y - MARGIN - Pt(10), SMALL_LINE_HEIGHT) + Cur.extra,
                 !.i = 0]
    /\ pc' = pc + 1
    /\ UNCHANGED <<page_prims, bookmarks, links, yset, y>>
    /\ Quiet

\* for i in range(num_lines): draw the row's lines at y; y -= SMALL_LINE_HEIGHT
DoRows ==
    /\ At("rows")
    /\ IF loc.i < loc.num_lines
       THEN /\ page_prims' = page_prims \o AllAtY(Cur.ps, y)
            /\ y' = y - SMALL_LINE_HEIGHT
            /\ loc' = [loc EXCEPT !.i = @ + 1]
            /\ pc' = pc
       ELSE /\ pc' = pc + 1
            /\ UNCHANGED <<page_prims, y, loc>>
    /\ UNCHANGED <<bookmarks, links, yset>>
    /\ Quiet

Next ==
    \/ Open
    \/ Call
    \/ Return
    \/ ShowPage
    \/ Save
    \/ PrintSummary
    \/ DoBookmark
    \/ DoNav
    \/ DoSetY
    \/ DoSub
    \/ DoHeader
    \/ DoRuled
    \/ DoRuledN
    \/ DoFrame
    \/ DoCheckbox
    \/ DoField
    \/ DoClock
    \/ DoScale
    \/ DoTracker
    \/ DoDraw
    \/ DoMark
    \/ DoLeftEnd
    \/ DoReset
    \/ DoMin
    \/ DoCount
    \/ DoRows

Spec == Init /\ [][Next]_vars

(***************************************************************************)
(* Backend failures.  Any call on the canvas may raise; the call that      *)
(* raises leaves no effect of its own, the calls made before it keep       *)
(* theirs.  Neither script catches anything, so the exception leaves the   *)
(* entry point: the control position stays where the call was made.        *)
(***************************************************************************)
\* The primitives the statement at pc asks of the canvas, in call order
StatementPrims ==
    CASE Cur.op = "header" -> Header(Cur.x, y, Cur.w, Cur.title).prims
      [] Cur.op = "ruled" -> Ruled(Cur.x, y + Cur.dy, Cur.w, Cur.n).prims
      [] Cur.op = "ruled_n" -> Ruled(Cur.x, y, Cur.w, loc.num_lines).prims
      [] Cur.op = "frame" -> Frame(Cur.x, y, Cur.w, Cur.h)
      [] Cur.op = "checkbox" -> draw_checkbox(Cur.x, y)
      [] Cur.op = "field" -> F_draw_field_with_label(Cur.x, y, Cur.label, Cur.ls, Cur.le)
      [] Cur.op = "clock" -> F_draw_progress_clock(Cur.x, y, Cur.w)
      [] Cur.op = "scale" -> F_draw_disposition_scale(Cur.x, y, Cur.w)
      [] Cur.op = "tracker" -> draw_initiative_tracker(Cur.x, y, Cur.w, Cur.h, Cur.num)
      [] Cur.op = "draw" -> AllAtY(Cur.ps, y)
      [] Cur.op = "rows" -> IF loc.i < loc.num_lines THEN AllAtY(Cur.ps, y) ELSE <<>>
      [] OTHER -> <<>>

Raise(what) == raised' = what

\* canvas.Canvas(...) raises
RaiseOpen ==
    /\ call = NoCall
    /\ ~Unwinding
    /\ top = 0
    /\ Raise("Canvas")
    /\ UNCHANGED <<call, result, doc, filename, canvas, page_prims, pages, bookmarks, links,
                   printed, events, loc, top, pc, yset, y>>

\* c.bookmarkPage(name) raises
RaiseBookmark ==
    /\ At("bookmark")
    /\ Raise("bookmarkPage")
    /\ UNCHANGED <<call, result, doc, filename, canvas, page_prims, pages, bookmarks, links,
                   printed, events, loc, top, pc, yset, y>>

\* a call inside draw_nav_bar raises after j of its calls went through: the
\* two lines, then drawCentredString and linkRect for each entry of PAGES
RaiseNav ==
    /\ At("nav")
    /\ LET r == draw_nav_bar(RM2_WIDTH, Cur.idx) IN
       \E j \in 0..(2 + 2 * Len(PAGES) - 1) :
         LET np == IF j <= 2 THEN j ELSE 2 + ((j - 1) \div 2)
             nl == IF j <= 2 THEN 0 ELSE (j - 2) \div 2
         IN  /\ page_prims' = page_prims \o SubSeq(r.prims, 1, np)
             /\ links' = links \o [k \in 1..nl |->
                                     [page |-> PageNo, target |-> r.links[k].target,
                                      x1 |-> r.links[k].x1, y1 |-> r.links[k].y1,
                                      x2 |-> r.links[k].x2, y2 |-> r.links[k].y2]]
             /\ Raise(IF j > 2 /\ (j - 2) % 2 = 1 THEN "linkRect" ELSE "draw")
    /\ UNCHANGED <<call, result, doc, filename, canvas, pages, bookmarks,
                   printed, events, loc, top, pc, yset, y>>

\* a drawing call of the statement at pc raises after k of its primitives
\* were drawn
RaiseDraw ==
    /\ ~Unwinding /\ Running /\ pc <= Len(Stmts)
    /\ StatementPrims # <<>>
    /\ \E k \in 0..(Len(StatementPrims) - 1) :
         page_prims' = page_prims \o SubSeq(StatementPrims, 1, k)
    /\ Raise("draw")
    /\ UNCHANGED <<call, result, doc, filename, canvas, pages, bookmarks, links,
                   printed, events, loc, top, pc, yset, y>>

\* c.showPage() raises
RaiseShowPage ==
    /\ AtTop("showPage")
    /\ Raise("showPage")
    /\ UNCHANGED <<call, result, doc, filename, canvas, page_prims, pages, bookmarks, links,
                   printed, events, loc, top, pc, yset, y>>

\* c.save() raises, before or after it has emitted the pending page; the
\* file is not written
RaiseSave ==
    /\ AtTop("save")
    /\ \E emitted \in BOOLEAN :
         IF emitted /\ page_prims # <<>>
         THEN pages' = Append(pages, Len(page_prims)) /\ page_prims' = <<>>
         ELSE UNCHANGED <<pages, page_prims>>
    /\ Raise("save")
    /\ UNCHANGED <<call, result, doc, filename, canvas, bookmarks, links,
                   printed, events, loc, top, pc, yset, y>>

FailNext ==
    \/ Next
    \/ RaiseOpen
    \/ RaiseBookmark
    \/ RaiseNav
    \/ RaiseDraw
    \/ RaiseShowPage
    \/ RaiseSave

FailSpec == Init /\ [][FailNext]_vars

(***************************************************************************)
(* The widgets called on their own, with arguments drawn from small sets.  *)
(* The sets hold the values the composers pass (MARGIN, content_width,     *)
(* the line heights) and degenerate ones (zero height, zero-length axis).  *)
(***************************************************************************)
MaxLines == 4

InputX == {0, MARGIN}
InputY == {0, Pt(30), RM2_HEIGHT - MARGIN}
InputWidth == {Pt(20), Pt(100), content_width}
InputH == {-Pt(1), 0, SMALL_LINE_HEIGHT, LINE_HEIGHT}
InputTitle == {"", "Notes", "Review the Characters"}

RuledFns == {"draw_ruled_lines", "F_draw_ruled_lines"}
HeaderFns == {"draw_section_header", "F_draw_section_header"}
ScaleFns == {"F_draw_progress_clock", "F_draw_disposition_scale"}

Calls ==
    [fn : RuledFns, x : InputX, y : InputY, width : InputWidth,
     n : 0..MaxLines, h : InputH, title : {""}]
    \cup [fn : HeaderFns, x : InputX, y : InputY, width : InputWidth,
          n : {0}, h : {0}, title : InputTitle]
    \cup [fn : ScaleFns, x : InputX, y : InputY, width : InputWidth,
          n : {0}, h : {0}, title : {""}]

WidgetInit ==
    /\ call \in Calls
    /\ result = NoResult
    /\ doc = ""
    /\ filename = ""
    /\ canvas = [open |-> FALSE, pagesize |-> <<0, 0>>, saved |-> FALSE]
    /\ page_prims = <<>>
    /\ pages = <<>>
    /\ bookmarks = <<>>
    /\ links = <<>>
    /\ printed = NoPrint
    /\ events = <<>>
    /\ loc = NoLocals
    /\ top = 0
    /\ pc = 0
    /\ yset = FALSE
    /\ y = 0
    /\ raised = ""

Idle == UNCHANGED <<call, doc, filename, canvas, page_prims, pages, bookmarks, links,
                    printed, events, loc, top, pc, yset, y, raised>>

Returned(r) == [called |-> TRUE, prims |-> r.prims, ret |-> r.ret]
Drawn(ps) == [called |-> TRUE, prims |-> ps, ret |-> 0]

CallRuledLines ==
    /\ call.fn = "draw_ruled_lines" /\ ~result.called
    /\ result' = Returned(draw_ruled_lines(call.x, call.y, call.width, call.n, call.h))
    /\ Idle

F_CallRuledLines ==
    /\ call.fn = "F_draw_ruled_lines" /\ ~result.called
    /\ result' = Returned(F_draw_ruled_lines(call.x, call.y, call.width, call.n, call.h))
    /\ Idle

CallSectionHeader ==
    /\ call.fn = "draw_section_header" /\ ~result.called
    /\ result' = Returned(draw_section_header(call.x, call.y, call.width, call.title))
    /\ Idle

F_CallSectionHeader ==
    /\ call.fn = "F_draw_section_header" /\ ~result.called
    /\ result' = Returned(F_draw_section_header(call.x, call.y, call.width, call.title))
    /\ Idle

F_CallProgressClock ==
    /\ call.fn = "F_draw_progress_clock" /\ ~result.called
    /\ result' = Drawn(F_draw_progress_clock(call.x, call.y, call.width))
    /\ Idle

F_CallDispositionScale ==
    /\ call.fn = "F_draw_disposition_scale" /\ ~result.called
    /\ result' = Drawn(F_draw_disposition_scale(call.x, call.y, call.width))
    /\ Idle

WidgetNext ==
    \/ CallRuledLines
    \/ F_CallRuledLines
    \/ CallSectionHeader
    \/ F_CallSectionHeader
    \/ F_CallProgressClock
    \/ F_CallDispositionScale

WidgetSpec == WidgetInit /\ [][WidgetNext]_vars

(***************************************************************************)
(* A fill-the-rest-of-the-page section run from a chosen cursor: the        *)
(* composer stands at the statement computing the row count, as it would    *)
(* had the sections above it left the cursor at call.y.  The section reads  *)
(* the cursor only; what is above it on the page is left out.               *)
(***************************************************************************)
MaxFillRows == 4

\* cursors from just under MARGIN + 10 to MaxFillRows rows above it, in
\* steps of 3 pt, on whole points and 100/226 pt off them; and the cursors
\* at which the two scripts reach these sections (pages 1, 4, 7, faction 2)
FillStarts ==
    {MARGIN + Pt(10) + k * Pt(3) + f :
        k \in (-1)..(4 * MaxFillRows), f \in {0, 100 * ExactDiv(U, 226)}}
    \cup {RM2_HEIGHT - Pt(466), RM2_HEIGHT - Pt(460), RM2_HEIGHT - Pt(85),
          RM2_HEIGHT - Pt(403)}

FillInit ==
    /\ doc \in {"lazy", "faction"}
    /\ top \in 1..Len(Program)
    /\ Program[top].op = "compose"
    /\ pc \in 1..Len(Stmts)
    /\ Cur.op = "count"
    /\ y \in FillStarts
    /\ call = [NoCall EXCEPT !.fn = "fill", !.y = y]
    /\ yset = TRUE
    /\ result = NoResult
    /\ filename = DefaultFilename(doc)
    /\ canvas = [open |-> TRUE, pagesize |-> <<RM2_WIDTH, RM2_HEIGHT>>, saved |-> FALSE]
    /\ page_prims = <<>>
    /\ pages = <<>>
    /\ bookmarks = <<>>
    /\ links = <<>>
    /\ printed = NoPrint
    /\ events = <<>>
    /\ loc = NoLocals
    /\ raised = ""

FillNext ==
    \/ DoCount
    \/ DoRows
    \/ DoRuledN
    \/ Return

FillSpec == FillInit /\ [][FillNext]_vars

\* The scripts and the widget calls together
FullInit == Init \/ WidgetInit
FullNext == Next \/ WidgetNext
FullSpec == FullInit /\ [][FullNext]_vars

(***************************************************************************)
(* Properties                                                              *)
(***************************************************************************)
Finished == ~Running /\ top = Len(Program) + 1

PageName(i) == "page" \o ToStr(i)

\* C1: in every page composer of both documents the cursor y after the
\* composer's last cursor update is at or above the bottom margin MARGIN.
C1_FinalCursorAboveMargin == AtEnd => y >= MARGIN

\* C2: create_lazy_dm_template produces exactly 7 pages and exactly 7
\* bookmarks page1..page7; bookmark page<i> is defined while page i is being
\* composed (before its page break) and on no other page, in page order.
C2_SevenPagesSevenBookmarks ==
    doc = "lazy" =>
        /\ \A i \in 1..Len(bookmarks) :
             bookmarks[i] = [name |-> PageName(i), page |-> i]
        /\ \A p \in 1..Len(pages) : \E i \in 1..Len(bookmarks) : bookmarks[i].page = p
        /\ Len(bookmarks) <= PageNo
        /\ canvas.saved => Len(pages) = 7 /\ Len(bookmarks) = 7

C2_Witness ==
    doc = "lazy" /\ Finished /\ Len(pages) = 7 /\ Len(bookmarks) = 7

\* The link rectangles of page p, in the order they were emitted
LinksOn(p) == SelectSeq(links, LAMBDA l : l.page = p)

\* C3: on every page of the 7-page document the navigation bar emits exactly
\* 7 link rectangles, one per entry of PAGES; the k-th targets page<k>; and
\* when the document is saved every link's target is a bookmark defined on
\* page k, forward links included.
C3_LinksResolve ==
    doc = "lazy" =>
        /\ \A p \in 1..PageNo :
             LET ls == LinksOn(p) IN
               /\ Len(ls) \in {0, Len(PAGES)}
               /\ \A k \in 1..Len(ls) : ls[k].target = PageName(k)
        /\ \A p \in 1..Len(pages) : Len(LinksOn(p)) = Len(PAGES)
        /\ canvas.saved =>
             /\ Len(pages) = 7
             /\ \A p \in 1..7 : \A k \in 1..Len(PAGES) :
                  \E i \in 1..Len(bookmarks) :
                     /\ bookmarks[i].name = LinksOn(p)[k].target
                     /\ bookmarks[i].page = k

C3_Witness ==
    doc = "lazy" /\ canvas.saved /\ Len(links) = 49
    /\ LinksOn(1)[7].target = "page7"

\* The navigation labels drawn on the page being composed
NavLabels == SelectSeq(page_prims, LAMBDA p : p.k = "ctext" /\ p.st # "")

\* C4: the navigation bar of page i renders exactly one label in the
\* current-page style (bold, dark gray), the i-th entry of PAGES, and the
\* other six labels in the normal style.
C4_CurrentPageHighlighted ==
    (doc = "lazy" /\ NavLabels # <<>>) =>
        /\ Len(NavLabels) = Len(PAGES)
        /\ PageNo \in 1..Len(PAGES)
        /\ \A k \in 1..Len(PAGES) :
             /\ NavLabels[k].s = PAGES[k]
             /\ NavLabels[k].st = IF k = PageNo THEN "Helvetica-Bold/DARK_GRAY"
                                  ELSE "Helvetica/MED_GRAY"

C4_Witness ==
    doc = "lazy" /\ PageNo = 7 /\ Len(NavLabels) = 7
    /\ NavLabels[7].st = "Helvetica-Bold/DARK_GRAY"

\* C5: create_faction_template with default parameters opens a document of
\* page size (1404*72/226, 1872*72/226) points, produces exactly 2 pages with
\* no navigation bar, bookmark or link, runs to its end without stopping,
\* and prints a page count (2) equal to the number of pages produced.
C5_FactionTwoPages ==
    (doc = "faction" /\ filename = DefaultFilename("faction")) =>
        /\ Finished \/ ENABLED Next
        /\ canvas.open =>
             /\ canvas.pagesize = <<RM2_WIDTH, RM2_HEIGHT>>
             /\ canvas.pagesize[1] = 1404 * 72 * (U \div 226)
             /\ canvas.pagesize[2] = 1872 * 72 * (U \div 226)
             /\ (U \div 226) * 226 = U
        /\ bookmarks = <<>> /\ links = <<>> /\ NavLabels = <<>>
        /\ Len(pages) <= 2
        /\ canvas.saved => Len(pages) = 2
        /\ Finished => printed.pages = 2 /\ printed.pages = Len(pages) /\ canvas.saved

C5_Witness ==
    doc = "faction" /\ filename = DefaultFilename("faction") /\ Finished
    /\ Len(pages) = 2 /\ printed.pages = 2

\* The composers of each document, in the order the source declares them
ComposerOrder ==
    IF doc = "lazy"
    THEN <<"draw_page1_overview", "draw_page2_scenes", "draw_page3_locations",
           "draw_page4_secrets", "draw_page5_npcs", "draw_page6_combat",
           "draw_page7_notes">>
    ELSE <<"draw_faction_page", "draw_faction_page_2">>

\* open, then each composer with one page break between consecutive ones,
\* then one save, then the summary
ExpectedEvents ==
    <<Event("open", filename)>>
    \o Flat([k \in 1..Len(ComposerOrder) |->
               IF k < Len(ComposerOrder)
               THEN <<Event("compose", ComposerOrder[k]), Event("showPage", "")>>
               ELSE <<Event("compose", ComposerOrder[k])>>])
    \o <<Event("save", filename), Event("print", "")>>

IsPrefix(a, b) == Len(a) <= Len(b) /\ \A i \in 1..Len(a) : a[i] = b[i]

\* C6: in both generators the document-level events are: open, each composer
\* once in declared order with exactly one page break between consecutive
\* composers and none after the last, one save, the summary; nothing is
\* drawn after save.
C6_EventOrder ==
    /\ IsPrefix(events, ExpectedEvents)
    /\ Finished => events = ExpectedEvents
    /\ canvas.saved => ~Running /\ page_prims = <<>> /\ Len(pages) = Len(ComposerOrder)
    /\ Running => events[Len(events)] = Event("compose", Program[top].name)

C6_Witness ==
    doc = "lazy" /\ Finished /\ Len(events) = 16 /\ events[15].e = "save"

\* C10: within every composer the cursor never increases from one cursor
\* update to the next, except at the reset to section_start_y on page 1;
\* each composer's first cursor value is at or below RM2_HEIGHT - MARGIN.
C10_CursorMonotone ==
    [][(pc > 0 /\ pc' > 0) =>
         /\ (yset /\ ~At("reset")) => y' <= y
         /\ At("reset") => Program[top].name = "draw_page1_overview"
         /\ (~yset /\ yset') => y' <= RM2_HEIGHT - MARGIN]_vars

C10_Witness ==
    /\ Running /\ pc > 1 /\ Stmts[pc - 1].op = "reset"
    /\ y = loc.section_start_y /\ y > loc.left_col_end_y

\* C7: draw_ruled_lines(c, x, y, width, n, h) returns exactly y - n*h for
\* every n >= 0 and h, draws exactly n lines at heights y - i*h, i = 0..n-1,
\* and for n = 0 draws nothing and returns y unchanged (both source files).
C7_RuledLinesReturn ==
    (call.fn \in RuledFns /\ result.called) =>
        /\ result.ret = call.y - call.n * call.h
        /\ Len(result.prims) = call.n
        /\ \A i \in 0..(call.n - 1) :
             LET p == result.prims[i + 1] IN
               /\ p.k = "line"
               /\ p.y1 = call.y - i * call.h /\ p.y2 = p.y1
               /\ p.x1 = call.x /\ p.x2 = call.x + call.width
        /\ call.n = 0 => result.prims = <<>> /\ result.ret = call.y

C7_Witness ==
    /\ call.fn = "F_draw_ruled_lines" /\ result.called
    /\ call.n = 3 /\ call.h = SMALL_LINE_HEIGHT /\ call.y = RM2_HEIGHT - MARGIN
    /\ Len(result.prims) = 3 /\ result.ret = call.y - Pt(36)

\* C8: draw_section_header returns y - 15 for every origin y, width and
\* title, in both source files, and at every call in a page composer the
\* cursor that the following statements draw from is that returned value.
C8_HeaderOffset ==
    [][/\ (call.fn \in HeaderFns /\ ~result.called /\ result'.called) =>
            result'.ret = call.y - Pt(15)
       /\ At("header") =>
            /\ y' = Header(Cur.x, y, Cur.w, Cur.title).ret
            /\ y' = y - Pt(15)]_vars

C8_Witness ==
    /\ doc = "faction" /\ Running /\ Program[top].name = "draw_faction_page_2"
    /\ pc > 1 /\ Stmts[pc - 1].op = "header"
    /\ Stmts[pc - 1].title = "Intelligence"

\* The ticks a scale call drew: vertical lines reaching half above and below
\* the axis
Ticks(half) ==
    SelectSeq(result.prims,
              LAMBDA p : /\ p.k = "line" /\ p.x1 = p.x2
                         /\ p.y1 = call.y - half /\ p.y2 = call.y + half)
MajorTicks == Ticks(Pt(5))
MinorTicks == Ticks(Pt(3))

C11_FailurePropagates ==
    /\ [](Unwinding =>
            /\ ~Finished
            /\ ~canvas.saved
            /\ printed = NoPrint
            /\ IsPrefix(events, ExpectedEvents) /\ Len(events) < Len(ExpectedEvents)
            /\ \A e \in 1..Len(events) : events[e].e \notin {"save", "print"})
    /\ [][/\ ~Unwinding
          /\ Unwinding' =>
               /\ UNCHANGED <<canvas, bookmarks, printed, events, loc, top, pc, yset, y>>
               /\ IsPrefix(page_prims, page_prims') \/ page_prims' = <<>>
               /\ IsPrefix(pages, pages') /\ IsPrefix(links, links')]_vars

C11_Witness ==
    /\ doc = "lazy" /\ raised = "linkRect"
    /\ Program[top].name = "draw_page3_locations"
    /\ Len(pages) = 2 /\ Len(LinksOn(3)) = 4 /\ Len(bookmarks) = 3

\* Vertical extent of a primitive.  A text reaches from its baseline up to
\* at most the largest font size either script sets (14).
Larger(a, b) == IF a >= b THEN a ELSE b
Smaller(a, b) == IF a <= b THEN a ELSE b
PrimTop(p) ==
    CASE p.k \in {"line", "arc"} -> Larger(p.y1, p.y2)
      [] p.k = "rect" -> Larger(p.y1, p.y1 + p.y2)
      [] p.k = "circle" -> p.y1 + p.x2
      [] OTHER -> p.y1 + Pt(14)
PrimBottom(p) ==
    CASE p.k \in {"line", "arc"} -> Smaller(p.y1, p.y2)
      [] p.k = "rect" -> Smaller(p.y1, p.y1 + p.y2)
      [] p.k = "circle" -> p.y1 - p.x2
      [] OTHER -> p.y1

\* The primitives a step adds to the page being composed
NewPrims == SubSeq(page_prims', Len(page_prims) + 1, Len(page_prims'))

InComposer(name) == Running /\ Program[top].name = name

\* Page 1: the statements of the two-column section run from the one that
\* saves section_start_y to the one that takes the minimum; the Strong Start
\* section follows, up to the Story Beats header.
P1 == draw_page1_overview
P1_Mark == CHOOSE i \in 1..Len(P1) : P1[i].op = "mark"
P1_Min == CHOOSE i \in 1..Len(P1) : P1[i].op = "min"
P1_StoryBeats == CHOOSE i \in 1..Len(P1) : P1[i].op = "header" /\ P1[i].title = "Story Beats"

\* Horizontal spans of the ruled lines of the two columns
P1_ColumnSpans ==
    {<<P1[i].x, P1[i].x + P1[i].w>> : i \in {j \in P1_Mark..P1_Min : P1[j].op = "ruled"}}

\* The ruled lines of the two columns drawn so far on page 1
P1_ColumnLines ==
    SelectSeq(page_prims,
              LAMBDA p : p.k = "line" /\ p.y1 = p.y2 /\ <<p.x1, p.x2>> \in P1_ColumnSpans)

\* The height of the lowest of a sequence of horizontal lines
LowestY(ps) ==
    LET ys == {ps[i].y1 : i \in 1..Len(ps)}
    IN  CHOOSE v \in ys : \A w \in ys : v <= w

\* C12: in page 1's two-column section the shared cursor after the section
\* is the minimum of the two columns' end cursors (8 ruled lines left, 9
\* right), and every primitive of the following Strong Start section, the
\* header flourishes at y + 5 included, lies strictly below the lowest ruled
\* line drawn in either column.
C12_ColumnsThenStrongStart ==
    [][InComposer("draw_page1_overview") =>
         /\ pc = P1_Min =>
              /\ Len(P1_ColumnLines) = 8 + 9
              /\ y' <= loc.left_col_end_y /\ y' <= y
              /\ y' \in {loc.left_col_end_y, y}
         /\ pc \in (P1_Min + 1)..(P1_StoryBeats - 1) =>
              LET lowest == LowestY(P1_ColumnLines)
                  new == NewPrims
              IN  /\ y' < lowest
                  /\ \A i \in 1..Len(new) : PrimTop(new[i]) < lowest]_vars

C12_Witness ==
    /\ InComposer("draw_page1_overview") /\ pc = P1_StoryBeats
    /\ loc.left_col_end_y < loc.section_start_y
    /\ Len(P1_ColumnLines) = 17
    /\ \E i \in 1..Len(page_prims) :
         /\ page_prims[i].k = "text" /\ page_prims[i].s = "Strong Start"
         /\ PrimTop(page_prims[i]) < LowestY(P1_ColumnLines)

\* Horizontal span of a line or of a rectangle
SpanOf(p) == IF p.k = "rect" THEN <<p.x1, p.x1 + p.x2>> ELSE <<p.x1, p.x2>>

\* The columns of one row, left to right: equal widths, one gutter between
\* neighbours, no overlap, all inside the content area
ColumnsWithin(sp) ==
    \A i \in 1..Len(sp) :
        sp[i][1] >= MARGIN /\ sp[i][1] < sp[i][2] /\ sp[i][2] <= MARGIN + content_width
ColumnsApart(sp) ==
    \A i \in 1..(Len(sp) - 1) :
        sp[i][2] < sp[i + 1][1] /\ sp[i + 1][1] - sp[i][2] = sp[2][1] - sp[1][2]
ColumnsEqual(sp) ==
    \A i \in 1..Len(sp) : sp[i][2] - sp[i][1] = sp[1][2] - sp[1][1]
ColumnsEven(sp) == ColumnsWithin(sp) /\ ColumnsApart(sp) /\ ColumnsEqual(sp)

\* The rows of the column layouts, as the step that completes a row shows
\* them: a row of a fill loop (Story Beats, Loot & Rewards); a Strengths /
\* Weaknesses row; the frames of a pair of trackers; the rules of the two
\* column headers of page 1.
RowOfFillLoop == At("rows") /\ loc.i < loc.num_lines
RowOfStrengths ==
    /\ InComposer("draw_faction_page_2") /\ At("draw")
    /\ \A i \in 1..Len(Cur.ps) : Cur.ps[i].k = "line" /\ Cur.ps[i].y1 = 0
RowOfTrackers == At("tracker") /\ Cur.num % 2 = 0
RowOfHeaders ==
    InComposer("draw_page1_overview") /\ At("header") /\ Cur.title = "Session Recap"

FirstText(ps, title) == CHOOSE i \in 1..Len(ps) : ps[i].k = "text" /\ ps[i].s = title

RowSpans ==
    LET new == NewPrims IN
    CASE RowOfFillLoop \/ RowOfStrengths -> [i \in 1..Len(new) |-> SpanOf(new[i])]
      [] RowOfTrackers ->
           <<SpanOf(page_prims[Len(page_prims) - Len(new) + 1]), SpanOf(new[1])>>
      [] RowOfHeaders ->
           <<SpanOf(page_prims[FirstText(page_prims, "Review the Characters") + 1]),
             SpanOf(new[2])>>
      [] OTHER -> <<>>

C14_NothingBelowMargin ==
    \A i \in 1..Len(page_prims) : PrimBottom(page_prims[i]) >= MARGIN

C14_Witness ==
    /\ InComposer("draw_page6_combat") /\ AtEnd /\ y < MARGIN
    /\ \E i \in 1..Len(page_prims) :
         /\ page_prims[i].k = "line"
         /\ PrimBottom(page_prims[i]) = y + SMALL_LINE_HEIGHT
         /\ PrimBottom(page_prims[i]) < MARGIN + Pt(10)

\* floor(v / SMALL_LINE_HEIGHT) for v >= 0, by its defining inequalities
FloorRows(v) ==
    CHOOSE n \in 0..(v \div U) : n * SMALL_LINE_HEIGHT <= v /\ v < (n + 1) * SMALL_LINE_HEIGHT

\* The statement that computes the row count of the running composer, and
\* the number of lines one row of its section has
CountAt == CHOOSE i \in 1..Len(Stmts) : Stmts[i].op = "count"
LinesPerRow == IF Stmts[CountAt + 1].op = "rows" THEN Len(Stmts[CountAt + 1].ps) ELSE 1

\* C15: in each fill-the-rest-of-the-page section (page 1 Story Beats, page 7
\* Session Notes, faction page 2 Notes, and page 4 Loot & Rewards, which adds
\* one extra row), for any section start cursor y >= MARGIN + 10 the number
\* of ruled rows is floor((y - MARGIN - 10) / SMALL_LINE_HEIGHT) (plus 1 on
\* page 4), row r drawn at y - r * SMALL_LINE_HEIGHT, and no ruled line is
\* drawn below MARGIN + 10.
C15_FillRows ==
    (call.fn = "fill" /\ Running /\ call.y >= MARGIN + Pt(10)) =>
        LET rows == FloorRows(call.y - MARGIN - Pt(10))
                    + (IF Program[top].name = "draw_page4_secrets" THEN 1 ELSE 0)
            per_row == LinesPerRow
        IN  /\ Program[top].name \in {"draw_page1_overview", "draw_page4_secrets",
                                      "draw_page7_notes", "draw_faction_page_2"}
            /\ pc > CountAt => loc.num_lines = rows
            /\ \A j \in 1..Len(page_prims) :
                 /\ page_prims[j].k = "line"
                 /\ page_prims[j].y1 = call.y - ((j - 1) \div per_row) * SMALL_LINE_HEIGHT
                 /\ page_prims[j].y2 = page_prims[j].y1
                 /\ page_prims[j].y1 >= MARGIN + Pt(10)
            /\ Len(page_prims) <= rows * per_row
            /\ AtEnd => Len(page_prims) = rows * per_row

C15_Witness ==
    /\ call.fn = "fill" /\ AtEnd /\ Program[top].name = "draw_page4_secrets"
    /\ call.y = MARGIN + Pt(10) + Pt(24)
    /\ loc.num_lines = 3 /\ Len(page_prims) = 6
    /\ page_prims[6].y1 = MARGIN + Pt(10)

\* A frame on the page being composed: its rectangle, followed by the
\* top-left flourish that starts at the rectangle's top-left corner
IsFrameAt(ps, i) ==
    /\ i + 12 <= Len(ps)
    /\ ps[i].k = "rect"
    /\ ps[i + 1].k = "line" /\ ps[i + 1].x1 = ps[i].x1 /\ ps[i + 1].y1 = ps[i].y1 + ps[i].y2
    /\ ps[i + 2].k = "line" /\ ps[i + 3].k = "arc"

\* The frame statement whose content the statement at pc draws: the nearest
\* one before pc with only drawing statements that keep the cursor between
FrameBefore ==
    {f \in 1..(pc - 1) :
        /\ Stmts[f].op = "frame"
        /\ \A k \in (f + 1)..(pc - 1) :
             Stmts[k].op = "draw" \/ (Stmts[k].op = "ruled" /\ ~Stmts[k].assign)}
DrawsFrameContent == (At("draw") \/ At("ruled")) /\ FrameBefore # {}

\* top of text taken at its baseline here: the claim is about where the
\* composer places the content
Within(p, lo, hi) ==
    /\ PrimBottom(p) >= lo
    /\ (IF p.k \in {"text", "ctext"} THEN p.y1 ELSE PrimTop(p)) <= hi

\* C16: everything a composer draws as the content of a decorative frame
\* lies within the frame's vertical extent [y - height, y] (the 10 ruled
\* lines of the Strong Start frame, the field lines of each NPC frame, the 12
\* combatant rows of each initiative tracker, the 3 ruled lines of the
\* faction Current Activity frame), and frames drawn one after the other
\* down a page (4 NPC frames, 2 tracker rows) do not overlap vertically.
C16_FrameContents ==
    /\ [](LET ps == page_prims
              fr == {i \in 1..Len(ps) : IsFrameAt(ps, i)}
          IN  \A i \in fr : \A j \in fr :
                  i < j =>
                      \/ ps[j].y1 = ps[i].y1 /\ ps[j].y2 = ps[i].y2 /\ ps[j].x1 > ps[i].x1 + ps[i].x2
                      \/ ps[j].y1 + ps[j].y2 < ps[i].y1)
    /\ [][/\ DrawsFrameContent =>
               LET f == CHOOSE f \in FrameBefore : TRUE
                   new == NewPrims
               IN  /\ \E i \in 1..Len(page_prims) :
                         /\ IsFrameAt(page_prims, i)
                         /\ page_prims[i].y1 = y - Stmts[f].h /\ page_prims[i].y2 = Stmts[f].h
                   /\ new # <<>>
                   /\ \A i \in 1..Len(new) : Within(new[i], y - Stmts[f].h, y)
          /\ At("tracker") =>
               LET new == NewPrims IN
                 /\ IsFrameAt(new, 1)
                 /\ new[1].y1 = y - Cur.h /\ new[1].y2 = Cur.h
                 /\ Len(new) = 13 + 6 + 12 * 8
                 /\ \A i \in 1..Len(new) : Within(new[i], y - Cur.h, y)]_vars

C16_Witness ==
    /\ InComposer("draw_page6_combat") /\ AtEnd
    /\ Cardinality({i \in 1..Len(page_prims) : IsFrameAt(page_prims, i)}) = 4
    /\ \E i \in 1..Len(page_prims) :
         /\ IsFrameAt(page_prims, i) /\ page_prims[i].y2 = Pt(195)
         /\ \E j \in (i + 1)..Len(page_prims) :
              /\ page_prims[j].k = "rect" /\ page_prims[j].y2 = Pt(12)
              /\ page_prims[j].y1 = page_prims[i].y1 + Pt(13)

\* C17: the 7 link rectangles drawn by draw_nav_bar on a page are pairwise
\* disjoint, ordered left to right in the order of PAGES, each of width
\* link_width - 10 centred on its label, all within
\* [MARGIN, page_width - MARGIN]; their geometry, their targets and the
\* cursor draw_nav_bar returns (RM2_HEIGHT - MARGIN - 35) are the same for
\* every value of current_page_idx.
C17_LinkGeometry ==
    /\ [](doc = "lazy" =>
            \A p \in 1..PageNo :
               LET ls == LinksOn(p)
                   first == LinksOn(1)
               IN  \A k \in 1..Len(ls) :
                     /\ ls[k].x1 < ls[k].x2 /\ ls[k].y1 < ls[k].y2
                     /\ Len(PAGES) * (ls[k].x2 - ls[k].x1 + Pt(10)) = RM2_WIDTH - 2 * MARGIN
                     /\ ls[k].x1 >= MARGIN /\ ls[k].x2 <= RM2_WIDTH - MARGIN
                     /\ k > 1 => ls[k - 1].x2 < ls[k].x1
                     /\ ls[k].target = PageName(k)
                     /\ ls[k] = [first[k] EXCEPT !.page = p]
                     /\ p = PageNo =>
                          /\ NavLabels[k].s = PAGES[k]
                          /\ 2 * NavLabels[k].x1 = ls[k].x1 + ls[k].x2)
    /\ [][At("nav") =>
            /\ y' = RM2_HEIGHT - MARGIN - Pt(35)
            /\ Len(LinksOn(PageNo)') = Len(PAGES)]_vars

C17_Witness ==
    /\ doc = "lazy" /\ PageNo = 7 /\ Len(LinksOn(7)) = 7
    /\ LinksOn(7)[7].x2 = RM2_WIDTH - MARGIN - Pt(5)
    /\ LinksOn(7)[7].x1 = LinksOn(1)[7].x1
    /\ LinksOn(7)[1].x1 = MARGIN + Pt(5)
    /\ NavLabels[7].st = "Helvetica-Bold/DARK_GRAY"
    /\ y = RM2_HEIGHT - MARGIN - Pt(35)

=============================================================================
